---- MODULE Spec2Model ----
(***************************************************************************)
(* Transaction submission / retry subsystem of the REST sample             *)
(* (asset-transfer-basic/rest-api-typescript/src/fabric.ts).               *)
(*                                                                         *)
(* Three kinds of asynchronous activity share one Redis store:             *)
(*   - submitTransaction, once per HTTP request (one process per txn id);  *)
(*   - the setInterval callback of startRetryLoop (ticks may overlap);     *)
(*   - the block listener returned by blockEventHandler.                   *)
(* Every await of the source is an interleaving point of the model.        *)
(***************************************************************************)
EXTENDS Integers, Sequences, FiniteSets, TLC

(***************************************************************************)
(* Bounds of the model and configuration of the program.                   *)
(***************************************************************************)
\* number of transaction ids createTransaction can hand out
MaxTx == 2
\* largest value of Date.now()
MaxTime == 2
\* number of submitTransaction calls that can be in flight at once
MaxSubmits == 1
\* number of retry-loop callbacks that can be in flight at once
MaxTicks == 1
\* largest number of transaction events in one block
MaxBlockLen == 1
\* number of retry-loop callbacks in flight at once when the interval is
\* shorter than a resubmission
MaxOverlap == 2
\* config.maxRetryCount
MaxRetryCount == 2

TxIds == 1..MaxTx
Ticks == 1..MaxTicks
Times == 1..MaxTime

\* A JavaScript object is a function from the names of the properties it has;
\* a property it lacks reads as undefined.  A Redis hash is the same, and the
\* hash of a key that does not exist is the empty one.
EmptyObj == <<>>
Has(obj, prop) == prop \in DOMAIN obj
\* no transaction chosen yet by a tick
NoTx == 0

(***************************************************************************)
(* Error objects of the gateway.  A text is a sequence of tokens.          *)
(***************************************************************************)
retryableErrors ==
    {"MVCC_READ_CONFLICT", "PHANTOM_READ_CONFLICT", "ENDORSEMENT_POLICY_FAILURE",
     "CHAINCODE_VERSION_CONFLICT", "EXPIRED_CHAINCODE"}

MsgExists == <<"status", "500", "the", "asset", "a1", "already", "exists">>
MsgNotExist == <<"Asset", "a1", "does", "not", "exist">>
MsgTxNotFound ==
    <<"Failed", "to", "get", "transaction", "with", "id", "tx", "9", ",",
      "error", "Entry", "not", "found", "in", "index">>
MsgMvcc == <<"peer0", "MVCC_READ_CONFLICT">>
MsgPhantom == <<"PHANTOM_READ_CONFLICT", "peer1">>
MsgTimeout == <<"commit", "timeout">>
MsgDuplicate == <<"commit", "failed", "with", "status", "DUPLICATE_TXID">>

EExists == [message |-> MsgExists,
            errors |-> << [endorsements |-> << [details |-> MsgExists] >>] >>]
ENotExist == [message |-> MsgNotExist,
              errors |-> << [endorsements |-> << [details |-> MsgNotExist] >>] >>]
ETxNotFound == [message |-> MsgTxNotFound, name |-> "Error"]
EMvcc == [message |-> MsgMvcc,
          errors |-> << [endorsements |-> << [details |-> MsgMvcc] >>] >>]
\* the retryable detail sits behind entries that lack the expected fields
EPhantom == [message |-> MsgPhantom,
             errors |-> << [peer |-> "p0"],
                           [endorsements |-> << [peer |-> "p1"],
                                                [details |-> MsgPhantom] >>] >>]
ETimeout == [message |-> MsgTimeout, name |-> "Error"]
\* the resubmitted transaction is on the ledger already
EDuplicate == [message |-> MsgDuplicate,
               errors |-> << [endorsements |-> << [details |-> MsgDuplicate] >>] >>]

\* what txn.submit can fail with
GatewayErrors ==
    {EExists, ENotExist, ETxNotFound, EMvcc, EPhantom, ETimeout, EDuplicate}
\* ... at endorsement time, in submitTransaction
EndorseErrors == {EExists, ETxNotFound, EPhantom}

\* what Buffer.from(undefined) throws, what a Redis command rejects with
TypeErrorObj == [message |-> <<"TypeError">>, name |-> "Error"]
RedisErrorObj == [message |-> <<"Connection", "is", "closed">>, name |-> "Error"]

(***************************************************************************)
(* Error classification.                                                   *)
(***************************************************************************)
\* String.prototype.includes, on token sequences
Includes(text, re) == \E i \in 1..Len(text) : text[i] = re

\* tokens that are not made of word characters only (\w)
NonWordTokens == {",", "a-1"}
IsWord(tok) == tok \notin NonWordTokens

isRetryableError(error) ==
    /\ Has(error, "errors")
    /\ \E g \in 1..Len(error.errors) :
          /\ Has(error.errors[g], "endorsements")
          /\ \E k \in 1..Len(error.errors[g].endorsements) :
                /\ Has(error.errors[g].endorsements[k], "details")
                /\ \E re \in retryableErrors :
                      Includes(error.errors[g].endorsements[k].details, re)

Min(S) == CHOOSE x \in S : \A y \in S : x <= y

\* the positions where "[aA]sset \w* <tail>" starts in msg
AssetCores(msg, tail) ==
    {i \in 1..Len(msg) :
        /\ i + 1 + Len(tail) <= Len(msg)
        /\ msg[i] \in {"asset", "Asset"}
        /\ IsWord(msg[i + 1])
        /\ \A k \in 1..Len(tail) : msg[i + 1 + k] = tail[k]}

\* first match of /([tT]he )?[aA]sset \w* <tail>/g in msg, <<>> when there is none
AssetMatch(msg, tail) ==
    IF AssetCores(msg, tail) = {} THEN <<>>
    ELSE LET i == Min(AssetCores(msg, tail))
             s == IF i > 1 /\ msg[i - 1] \in {"the", "The"} THEN i - 1 ELSE i
         IN  SubSeq(msg, s, i + 1 + Len(tail))

TxHead == <<"Failed", "to", "get", "transaction", "with", "id">>
TxTail == <<",", "error", "Entry", "not", "found", "in", "index">>
IsAt(msg, i, pat) ==
    /\ i + Len(pat) - 1 <= Len(msg)
    /\ \A k \in 1..Len(pat) : msg[i + k - 1] = pat[k]

\* the <<start, end>> of the matches of
\* /Failed to get transaction with id [^,]*, error Entry not found in index/g
TxMatches(msg) ==
    {se \in (1..Len(msg)) \X (1..Len(msg)) :
        /\ IsAt(msg, se[1], TxHead)
        /\ \E j \in (se[1] + Len(TxHead))..Len(msg) :
              /\ IsAt(msg, j, TxTail)
              /\ se[2] = j + Len(TxTail) - 1
              /\ \A m \in (se[1] + Len(TxHead))..(j - 1) : msg[m] # ","}

TxMatch(msg) ==
    IF TxMatches(msg) = {} THEN <<>>
    ELSE LET se == CHOOSE x \in TxMatches(msg) :
                      \A y \in TxMatches(msg) : x[1] <= y[1]
         IN  SubSeq(msg, se[1], se[2])

\* the test for "does not exist" is made before the test for "already exists"
handleErrorNotFoundFirst(transactionId, err) ==
    IF AssetMatch(err.message, <<"does", "not", "exist">>) # <<>>
    THEN [kind |-> "AssetNotFoundError",
          message |-> AssetMatch(err.message, <<"does", "not", "exist">>),
          transactionId |-> transactionId]
    ELSE IF AssetMatch(err.message, <<"already", "exists">>) # <<>>
    THEN [kind |-> "AssetExistsError",
          message |-> AssetMatch(err.message, <<"already", "exists">>),
          transactionId |-> transactionId]
    ELSE IF TxMatch(err.message) # <<>>
    THEN [kind |-> "TransactionNotFoundError",
          message |-> TxMatch(err.message),
          transactionId |-> transactionId]
    ELSE [kind |-> "TransactionError",
          message |-> <<"Transaction", "error">>,
          transactionId |-> transactionId]

handleError(transactionId, err) ==
    IF AssetMatch(err.message, <<"already", "exists">>) # <<>>
    THEN [kind |-> "AssetExistsError",
          message |-> AssetMatch(err.message, <<"already", "exists">>),
          transactionId |-> transactionId]
    ELSE IF AssetMatch(err.message, <<"does", "not", "exist">>) # <<>>
    THEN [kind |-> "AssetNotFoundError",
          message |-> AssetMatch(err.message, <<"does", "not", "exist">>),
          transactionId |-> transactionId]
    ELSE IF TxMatch(err.message) # <<>>
    THEN [kind |-> "TransactionNotFoundError",
          message |-> TxMatch(err.message),
          transactionId |-> transactionId]
    ELSE [kind |-> "TransactionError",
          message |-> <<"Transaction", "error">>,
          transactionId |-> transactionId]

(***************************************************************************)
(* The Redis store: the hashes txn:<id> and the sorted set                  *)
(* index:txn:timestamp (member -> score).                                  *)
(***************************************************************************)
\* the empty transaction id ''
EmptyId == 0

\* members of the sorted set in Redis order: by score, then by member
Before(idx, a, b) == idx[a] < idx[b] \/ (idx[a] = idx[b] /\ a < b)
Rank(idx, a) == Cardinality({b \in DOMAIN idx : Before(idx, b, a)})
Sorted(idx) ==
    [i \in 1..Cardinality(DOMAIN idx) |->
        CHOOSE a \in DOMAIN idx : Rank(idx, a) = i - 1]

\* ZCARD
zcard(idx) == Cardinality(DOMAIN idx)

\* ZRANGE key start stop: negative positions count from the end
zrange(idx, start, stop) ==
    LET n == Cardinality(DOMAIN idx)
        lo0 == IF start < 0 THEN n + start ELSE start
        hi0 == IF stop < 0 THEN n + stop ELSE stop
        lo == IF lo0 < 0 THEN 0 ELSE lo0
        hi == IF hi0 >= n THEN n - 1 ELSE hi0
    IN  IF lo > hi \/ lo >= n THEN <<>> ELSE SubSeq(Sorted(idx), lo + 1, hi + 1)

\* HGETALL txn:<id>
hgetall(recs, id) == IF id \in DOMAIN recs THEN recs[id] ELSE EmptyObj

Exists(recs, id) == hgetall(recs, id) # EmptyObj

\* the store is the pair [records, index]
storeTransactionDetails(st, id, state, args, timestamp) ==
    IF id = EmptyId THEN st
    ELSE [records |-> [st.records EXCEPT ![id] =
                          [state |-> state, args |-> args,
                           timestamp |-> timestamp, retries |-> 0]],
          index |-> [m \in DOMAIN st.index \cup {id} |->
                        IF m = id THEN timestamp ELSE st.index[m]]]

\* the index entry is removed and the hash txn:<id> is left behind
clearIndexOnly(st, id) ==
    [records |-> st.records,
     index |-> [m \in DOMAIN st.index \ {id} |-> st.index[m]]]

clearTransactionDetails(st, id) ==
    [records |-> [m \in DOMAIN st.records |->
                     IF m = id THEN EmptyObj ELSE st.records[m]],
     index |-> [m \in DOMAIN st.index \ {id} |-> st.index[m]]]

\* HINCRBY issued whether or not the hash exists: Redis creates a missing hash
incrementRetryCountHincrby(st, id) ==
    IF id = EmptyId THEN st
    ELSE IF ~Exists(st.records, id)
    THEN [st EXCEPT !.records[id] = [retries |-> 1]]
    ELSE [st EXCEPT !.records[id].retries = @ + 1]

incrementRetryCount(st, id) ==
    IF id = EmptyId \/ ~Exists(st.records, id) THEN st
    ELSE [st EXCEPT !.records[id].retries = @ + 1]

\* the ceiling test with > in place of >=
RetriesExhaustedStrict(savedTransaction) ==
    /\ Has(savedTransaction, "retries")
    /\ savedTransaction.retries > MaxRetryCount

\* parseInt(savedTransaction.retries) >= config.maxRetryCount;
\* parseInt(undefined) is NaN and every comparison with NaN is false
RetriesExhausted(savedTransaction) ==
    /\ Has(savedTransaction, "retries")
    /\ savedTransaction.retries >= MaxRetryCount

(***************************************************************************)
(* Transactions of the gateway.                                            *)
(***************************************************************************)
TxNames == {"CreateAsset"}
ArgLists == {<<"a1", "red">>}

\* txn.serialize(), contract.deserializeTransaction(Buffer.from(state))
serialize(name, id) == <<"txn", name, id>>
deserializeTransaction(state) == [name |-> state[2], id |-> state[3]]
\* JSON.stringify(args), JSON.parse(args)
JSONstringify(args) == <<"json", args>>
JSONparse(text) == text[2]

(***************************************************************************)
(* State.                                                                  *)
(***************************************************************************)
VARIABLES
    records,     \* Redis: id -> hash txn:<id> (EmptyObj when the key is absent)
    index,       \* Redis: sorted set index:txn:timestamp, member -> score
    now,         \* the last value Date.now() returned
    sub,         \* id -> position of the submitTransaction or
                 \*       evatuateTransaction call that created it
    subErr,      \* id -> the error caught by that call
    result,      \* id -> what that call returned or threw
    sent,        \* ids a submit of which was issued to the network
    stored,      \* ids whose storeTransactionDetails call has completed
    tpc,         \* tick -> position of the retry-loop callback
    ttx,         \* tick -> transactionId
    block,       \* the transaction events blockListner has yet to iterate
    handled,     \* the valid transaction ids of the block it has iterated
    uncaught     \* an exception has escaped the retry-loop callback

vars == <<records, index, now, sub, subErr, result, sent, stored,
          tpc, ttx, block, handled, uncaught>>

storeVars == <<records, index>>
subVars == <<now, sub, subErr, result, stored>>
tickVars == <<tpc, ttx, uncaught>>
blockVars == <<block, handled>>

Store == [records |-> records, index |-> index]
SetStore(st) == records' = st.records /\ index' = st.index

\* positions at which a callback of the retry loop has finished
TickDone == {"idle", "empty", "abandoned", "cleared", "retried", "discarded",
             "caughtRedis", "caughtLogger"}

Init ==
    /\ records = [id \in TxIds |-> EmptyObj]
    /\ index = <<>>
    /\ now = 1
    /\ sub = [id \in TxIds |-> "none"]
    /\ subErr = [id \in TxIds |-> EmptyObj]
    /\ result = [id \in TxIds |-> EmptyObj]
    /\ sent = {}
    /\ stored = {}
    /\ tpc = [t \in Ticks |-> "idle"]
    /\ ttx = [t \in Ticks |-> NoTx]
    /\ block = <<>>
    /\ handled = {}
    /\ uncaught = FALSE

(***************************************************************************)
(* submitTransaction                                                       *)
(***************************************************************************)
SubmitsInFlight == {id \in TxIds : sub[id] \in {"stored", "submit", "catch"}}

\* the serialized transaction and the JSON of the arguments change places
SubmitStoreSwapped(id, name, args, timestamp) ==
    /\ sub[id] = "none"
    /\ Cardinality(SubmitsInFlight) < MaxSubmits
    /\ timestamp >= now
    /\ now' = timestamp
    /\ SetStore(storeTransactionDetails(Store, id, JSONstringify(args),
                                        serialize(name, id), timestamp))
    /\ stored' = stored \cup {id}
    /\ sub' = [sub EXCEPT ![id] = "stored"]
    /\ UNCHANGED <<subErr, result, sent, tickVars, blockVars>>

\* createTransaction .. storeTransactionDetails: the store call completes
SubmitStore(id, name, args, timestamp) ==
    /\ sub[id] = "none"
    /\ Cardinality(SubmitsInFlight) < MaxSubmits
    /\ timestamp >= now
    /\ now' = timestamp
    /\ SetStore(storeTransactionDetails(Store, id, serialize(name, id),
                                        JSONstringify(args), timestamp))
    /\ stored' = stored \cup {id}
    /\ sub' = [sub EXCEPT ![id] = "stored"]
    /\ UNCHANGED <<subErr, result, sent, tickVars, blockVars>>

\* the rejection of the store call is not waited for: txn.submit is issued
SubmitStoreNotAwaited(id, timestamp) ==
    /\ sub[id] = "none"
    /\ Cardinality(SubmitsInFlight) < MaxSubmits
    /\ timestamp >= now
    /\ now' = timestamp
    /\ sub' = [sub EXCEPT ![id] = "submit"]
    /\ sent' = sent \cup {id}
    /\ UNCHANGED <<storeVars, subErr, result, stored, tickVars, blockVars>>

\* createTransaction .. storeTransactionDetails: the store call rejects
SubmitStoreFail(id, timestamp) ==
    /\ sub[id] = "none"
    /\ Cardinality(SubmitsInFlight) < MaxSubmits
    /\ timestamp >= now
    /\ now' = timestamp
    /\ sub' = [sub EXCEPT ![id] = "catch"]
    /\ subErr' = [subErr EXCEPT ![id] = RedisErrorObj]
    /\ UNCHANGED <<storeVars, result, sent, stored, tickVars, blockVars>>

\* setEventHandler(NONE); txn.submit(...) is issued
SubmitIssue(id) ==
    /\ sub[id] = "stored"
    /\ sub' = [sub EXCEPT ![id] = "submit"]
    /\ sent' = sent \cup {id}
    /\ UNCHANGED <<storeVars, now, subErr, result, stored, tickVars, blockVars>>

\* the record is cleared on the way out of a successful submit as well
SubmitReturnClears(id) ==
    /\ sub[id] = "submit"
    /\ sub' = [sub EXCEPT ![id] = "returned"]
    /\ result' = [result EXCEPT ![id] = [returned |-> id]]
    /\ SetStore(clearTransactionDetails(Store, id))
    /\ UNCHANGED <<now, subErr, sent, stored, tickVars, blockVars>>

\* txn.submit resolves: return txnId
SubmitReturn(id) ==
    /\ sub[id] = "submit"
    /\ sub' = [sub EXCEPT ![id] = "returned"]
    /\ result' = [result EXCEPT ![id] = [returned |-> id]]
    /\ UNCHANGED <<storeVars, now, subErr, sent, stored, tickVars, blockVars>>

\* txn.submit rejects
SubmitFail(id, err) ==
    /\ sub[id] = "submit"
    /\ sub' = [sub EXCEPT ![id] = "catch"]
    /\ subErr' = [subErr EXCEPT ![id] = err]
    /\ UNCHANGED <<storeVars, now, result, sent, stored, tickVars, blockVars>>

\* the catch block throws without clearing
SubmitCatchNoClear(id) ==
    /\ sub[id] = "catch"
    /\ sub' = [sub EXCEPT ![id] = "raised"]
    /\ result' = [result EXCEPT ![id] = [thrown |-> handleError(id, subErr[id])]]
    /\ subErr' = [subErr EXCEPT ![id] = EmptyObj]
    /\ UNCHANGED <<storeVars, now, sent, stored, tickVars, blockVars>>

\* catch: clearTransactionDetails completes; throw handleError(txnId, err)
SubmitCatch(id) ==
    /\ sub[id] = "catch"
    /\ SetStore(clearTransactionDetails(Store, id))
    /\ sub' = [sub EXCEPT ![id] = "raised"]
    /\ result' = [result EXCEPT ![id] = [thrown |-> handleError(id, subErr[id])]]
    /\ subErr' = [subErr EXCEPT ![id] = EmptyObj]
    /\ UNCHANGED <<now, sent, stored, tickVars, blockVars>>

(***************************************************************************)
(* evatuateTransaction                                                     *)
(***************************************************************************)
\* what txn.evaluate resolves with, what it can fail with
EvalPayload == <<"payload">>
EvalErrors == {ENotExist, ETimeout}

EvaluationsInFlight == {id \in TxIds : sub[id] = "evaluate"}

\* the call keeps retry bookkeeping the way submitTransaction does
EvaluateCallStores(id) ==
    /\ sub[id] = "none"
    /\ Cardinality(SubmitsInFlight \cup EvaluationsInFlight) < MaxSubmits
    /\ sub' = [sub EXCEPT ![id] = "evaluate"]
    /\ \E name \in TxNames, args \in ArgLists :
          SetStore(storeTransactionDetails(Store, id, serialize(name, id),
                                           JSONstringify(args), now))
    /\ UNCHANGED <<now, subErr, result, sent, stored, tickVars, blockVars>>

\* createTransaction, getTransactionId; txn.evaluate(...) is issued
EvaluateCall(id) ==
    /\ sub[id] = "none"
    /\ Cardinality(SubmitsInFlight \cup EvaluationsInFlight) < MaxSubmits
    /\ sub' = [sub EXCEPT ![id] = "evaluate"]
    /\ UNCHANGED <<storeVars, now, subErr, result, sent, stored,
                   tickVars, blockVars>>

\* txn.evaluate resolves: its payload is returned
EvaluateReturn(id) ==
    /\ sub[id] = "evaluate"
    /\ sub' = [sub EXCEPT ![id] = "evalReturned"]
    /\ result' = [result EXCEPT ![id] = [returned |-> EvalPayload]]
    /\ UNCHANGED <<storeVars, now, subErr, sent, stored, tickVars, blockVars>>

\* txn.evaluate rejects; catch: throw handleError(txnId, err)
EvaluateFail(id, err) ==
    /\ sub[id] = "evaluate"
    /\ sub' = [sub EXCEPT ![id] = "evalRaised"]
    /\ subErr' = [subErr EXCEPT ![id] = err]
    /\ result' = [result EXCEPT ![id] = [thrown |-> handleError(id, err)]]
    /\ UNCHANGED <<storeVars, now, sent, stored, tickVars, blockVars>>

(***************************************************************************)
(* startRetryLoop: the setInterval callback, and retryTransaction          *)
(***************************************************************************)
\* the interval timer fires the callback: zcard (its count is only logged),
\* then zrange is issued
TickFire(t) ==
    /\ ~uncaught
    /\ tpc[t] \in TickDone
    /\ tpc' = [tpc EXCEPT ![t] = "zrange"]
    /\ UNCHANGED <<storeVars, subVars, sent, blockVars, ttx, uncaught>>

\* the callback finishes at pos and forgets its locals
TickEnd(t, pos) ==
    /\ tpc' = [tpc EXCEPT ![t] = pos]
    /\ ttx' = [ttx EXCEPT ![t] = NoTx]

\* the callback has no catch: the rejection escapes it
TickNotCaught(t, pos) ==
    /\ TickEnd(t, pos)
    /\ uncaught' = TRUE

\* catch (err) of the callback: the error is logged
TickCaught(t, pos) ==
    /\ TickEnd(t, pos)
    /\ UNCHANGED uncaught

\* a Redis read of the callback (zcard, zrange, hgetall) rejects
TickReadFail(t) ==
    /\ tpc[t] \in {"zrange", "hgetall"}
    /\ TickCaught(t, "caughtRedis")
    /\ UNCHANGED <<storeVars, subVars, sent, blockVars>>

\* zrange('index:txn:timestamp', -1, -1) resolves
TickZrange(t) ==
    /\ tpc[t] = "zrange"
    /\ LET transactionIds == zrange(index, -1, -1)
       IN  IF Len(transactionIds) > 0
           THEN /\ ttx' = [ttx EXCEPT ![t] = transactionIds[1]]
                /\ tpc' = [tpc EXCEPT ![t] = "hgetall"]
           ELSE TickEnd(t, "empty")
    /\ UNCHANGED <<storeVars, subVars, sent, blockVars, uncaught>>

\* what logger.err(...) does: the logger module has no method of that name
\* unless it defines one, and calling a missing method throws a TypeError
LoggerErrOutcomes == {"returns", "throws"}

\* catch (err) of retryTransaction, up to its first await
RetryCatch(t, err) ==
    IF isRetryableError(err)
    THEN /\ tpc' = [tpc EXCEPT ![t] = "incr"]
         /\ UNCHANGED <<ttx, uncaught>>
    ELSE \E outcome \in LoggerErrOutcomes :
            IF outcome = "returns"
            THEN /\ tpc' = [tpc EXCEPT ![t] = "discard"]
                 /\ UNCHANGED <<ttx, uncaught>>
            ELSE TickCaught(t, "caughtLogger")

\* hgetall resolves; the ceiling test; retryTransaction up to its first await
TickHgetall(t) ==
    /\ tpc[t] = "hgetall"
    /\ LET savedTransaction == hgetall(records, ttx[t])
       IN  IF RetriesExhausted(savedTransaction)
           THEN /\ tpc' = [tpc EXCEPT ![t] = "abandon"]
                /\ UNCHANGED <<ttx, sent, uncaught>>
           ELSE IF ~Has(savedTransaction, "state")
           THEN \* Buffer.from(undefined) throws
                /\ RetryCatch(t, TypeErrorObj)
                /\ UNCHANGED sent
           ELSE \* JSON.parse(savedTransaction.args); transaction.submit(...args)
                /\ JSONparse(savedTransaction.args) \in ArgLists
                /\ tpc' = [tpc EXCEPT ![t] = "resubmit"]
                /\ sent' = sent \cup
                      {deserializeTransaction(savedTransaction.state).id}
                /\ UNCHANGED <<ttx, uncaught>>
    /\ UNCHANGED <<storeVars, subVars, blockVars>>

\* transaction.submit resolves and the callback ends without clearing
TickResubmitOkNoClear(t) ==
    /\ tpc[t] = "resubmit"
    /\ TickEnd(t, "cleared")
    /\ UNCHANGED <<storeVars, subVars, sent, blockVars, uncaught>>

\* transaction.submit resolves; clearTransactionDetails is issued
TickResubmitOk(t) ==
    /\ tpc[t] = "resubmit"
    /\ tpc' = [tpc EXCEPT ![t] = "clearOk"]
    /\ UNCHANGED <<storeVars, subVars, sent, blockVars, ttx, uncaught>>

\* transaction.submit rejects
TickResubmitFail(t, err) ==
    /\ tpc[t] = "resubmit"
    /\ RetryCatch(t, err)
    /\ UNCHANGED <<storeVars, subVars, sent, blockVars>>

\* where a clearTransactionDetails call of the callback leads
AfterClear(pos) ==
    CASE pos = "abandon" -> "abandoned"
      [] pos = "clearOk" -> "cleared"
      [] pos = "discard" -> "discarded"

\* the clear of the callback removes every pending transaction
TickClearAll(t) ==
    /\ tpc[t] \in {"abandon", "clearOk", "discard"}
    /\ records' = [id \in TxIds |-> EmptyObj]
    /\ index' = <<>>
    /\ TickEnd(t, AfterClear(tpc[t]))
    /\ UNCHANGED <<subVars, sent, blockVars, uncaught>>

\* the clear of the callback rejects when there is no record left to remove
TickClearRejectsMissing(t) ==
    /\ tpc[t] \in {"abandon", "clearOk", "discard"}
    /\ IF Exists(records, ttx[t])
       THEN /\ SetStore(clearTransactionDetails(Store, ttx[t]))
            /\ TickEnd(t, AfterClear(tpc[t]))
            /\ UNCHANGED uncaught
       ELSE /\ TickCaught(t, "caughtRedis")
            /\ UNCHANGED storeVars
    /\ UNCHANGED <<subVars, sent, blockVars>>

\* clearTransactionDetails(redis, transactionId) completes
TickClear(t) ==
    /\ tpc[t] \in {"abandon", "clearOk", "discard"}
    /\ SetStore(clearTransactionDetails(Store, ttx[t]))
    /\ TickEnd(t, AfterClear(tpc[t]))
    /\ UNCHANGED <<subVars, sent, blockVars, uncaught>>

\* the count is changed with the sign of the increment reversed
TickDecr(t) ==
    /\ tpc[t] = "incr"
    /\ IF Exists(records, ttx[t])
       THEN records' = [records EXCEPT ![ttx[t]].retries = @ - 1]
       ELSE UNCHANGED records
    /\ UNCHANGED index
    /\ TickEnd(t, "retried")
    /\ UNCHANGED <<subVars, sent, blockVars, uncaught>>

\* incrementRetryCount(redis, transactionId) completes
TickIncr(t) ==
    /\ tpc[t] = "incr"
    /\ SetStore(incrementRetryCount(Store, ttx[t]))
    /\ TickEnd(t, "retried")
    /\ UNCHANGED <<subVars, sent, blockVars, uncaught>>

(***************************************************************************)
(* blockEventHandler                                                       *)
(***************************************************************************)
\* a transaction event; the listener also guards against a missing one
NullEvent == EmptyObj
Events ==
    {NullEvent} \cup [transactionId : sent, isValid : BOOLEAN]

Blocks == UNION {[1..n -> Events] : n \in 1..MaxBlockLen}

ListenerIdle == block = <<>>

\* a block event arrives: blockListner starts on its transaction events
BlockArrive(b) ==
    /\ ListenerIdle
    /\ block' = b
    /\ handled' = {}
    /\ UNCHANGED <<storeVars, subVars, sent, tickVars>>

\* the for loop clears whatever the event says about validity
ListenerStepAnyEvent ==
    /\ ~ListenerIdle
    /\ LET transEvent == Head(block)
       IN  IF transEvent # NullEvent
           THEN /\ SetStore(clearTransactionDetails(Store,
                                                    transEvent.transactionId))
                /\ handled' = IF transEvent.isValid
                              THEN handled \cup {transEvent.transactionId}
                              ELSE handled
           ELSE UNCHANGED <<storeVars, handled>>
    /\ block' = Tail(block)
    /\ UNCHANGED <<subVars, sent, tickVars>>

\* one turn of the for loop
ListenerStep ==
    /\ ~ListenerIdle
    /\ LET transEvent == Head(block)
       IN  IF transEvent # NullEvent /\ transEvent.isValid
           THEN /\ SetStore(clearTransactionDetails(Store,
                                                    transEvent.transactionId))
                /\ handled' = handled \cup {transEvent.transactionId}
           ELSE UNCHANGED <<storeVars, handled>>
    /\ block' = Tail(block)
    /\ UNCHANGED <<subVars, sent, tickVars>>

(***************************************************************************)
(* The system.                                                             *)
(***************************************************************************)
Next ==
    \/ \E id \in TxIds, name \in TxNames, args \in ArgLists, ts \in Times :
          SubmitStore(id, name, args, ts)
    \/ \E id \in TxIds, ts \in Times : SubmitStoreFail(id, ts)
    \/ \E id \in TxIds : SubmitIssue(id)
    \/ \E id \in TxIds : SubmitReturn(id)
    \/ \E id \in TxIds, err \in EndorseErrors : SubmitFail(id, err)
    \/ \E id \in TxIds : SubmitCatch(id)
    \/ \E id \in TxIds : EvaluateCall(id)
    \/ \E id \in TxIds : EvaluateReturn(id)
    \/ \E id \in TxIds, err \in EvalErrors : EvaluateFail(id, err)
    \/ \E t \in Ticks : TickFire(t)
    \/ \E t \in Ticks : TickReadFail(t)
    \/ \E t \in Ticks : TickZrange(t)
    \/ \E t \in Ticks : TickHgetall(t)
    \/ \E t \in Ticks : TickResubmitOk(t)
    \/ \E t \in Ticks, err \in GatewayErrors : TickResubmitFail(t, err)
    \/ \E t \in Ticks : TickClear(t)
    \/ \E t \in Ticks : TickIncr(t)
    \/ \E b \in Blocks : BlockArrive(b)
    \/ ListenerStep

Spec == Init /\ [][Next]_vars

(***************************************************************************)
(* Error messages for the classifier, and the calls that classify them.    *)
(***************************************************************************)
MsgSpecExists == <<"the", "asset", "abc123", "already", "exists">>
MsgSpecNotExist == <<"Asset", "xyz", "does", "not", "exist">>
\* messages that match more than one pattern
MsgBoth ==
    <<"asset", "a1", "already", "exists", ",",
      "asset", "a2", "does", "not", "exist">>
MsgBothReversed ==
    <<"Asset", "a2", "does", "not", "exist", ",",
      "the", "asset", "a1", "already", "exists">>
MsgTxAndNotExist == MsgTxNotFound \o <<";">> \o MsgNotExist
MsgTxAndExists == MsgTxNotFound \o <<";", "The", "asset", "a1", "already", "exists">>
\* messages that come close to a pattern
MsgNonWordId == <<"asset", "a-1", "already", "exists">>
MsgNoId == <<"the", "asset", "already", "exists">>
MsgCommaInId ==
    <<"Failed", "to", "get", "transaction", "with", "id", "tx", ",", "9", ",",
      "error", "Entry", "not", "found", "in", "index">>
MsgEmpty == <<>>

ClassifierMessages ==
    {MsgExists, MsgNotExist, MsgTxNotFound, MsgMvcc, MsgPhantom, MsgTimeout,
     MsgDuplicate, MsgSpecExists, MsgSpecNotExist, MsgBoth, MsgBothReversed,
     MsgTxAndNotExist, MsgTxAndExists, MsgNonWordId, MsgNoId, MsgCommaInId,
     MsgEmpty}

ClassifierErrors == {[message |-> m, name |-> "Error"] : m \in ClassifierMessages}

\* evatuateTransaction calls whose txn.evaluate fails with any of these errors
NextClassify ==
    \/ \E id \in TxIds : EvaluateCall(id)
    \/ \E id \in TxIds : EvaluateReturn(id)
    \/ \E id \in TxIds, err \in ClassifierErrors : EvaluateFail(id, err)

SpecClassify == Init /\ [][NextClassify]_vars

(***************************************************************************)
(* The system under the scheduling the retry loop relies on.               *)
(***************************************************************************)
\* the awaited transaction.submit of tick t settles, one way or the other
TickResubmitSettles(t) ==
    \/ TickResubmitOk(t)
    \/ \E err \in GatewayErrors : TickResubmitFail(t, err)

\* the awaited txn.submit of submitTransaction settles
SubmitSettles(id) ==
    \/ SubmitReturn(id)
    \/ \E err \in EndorseErrors : SubmitFail(id, err)

\* setInterval keeps firing the callback; a Redis command that is issued again
\* and again succeeds in the end; every awaited call settles; the listener
\* finishes the block it is on
Fairness ==
    /\ \A t \in Ticks :
          /\ WF_vars(TickFire(t))
          /\ SF_vars(TickZrange(t))
          /\ SF_vars(TickHgetall(t))
          /\ WF_vars(TickResubmitSettles(t))
          /\ WF_vars(TickClear(t))
          /\ WF_vars(TickIncr(t))
    /\ \A id \in TxIds :
          /\ WF_vars(SubmitIssue(id))
          /\ WF_vars(SubmitSettles(id))
          /\ WF_vars(SubmitCatch(id))
    /\ WF_vars(ListenerStep)

SpecLive == Init /\ [][Next]_vars /\ Fairness

(***************************************************************************)
(* The retry loop with an interval shorter than a resubmission: the next   *)
(* callback fires while the previous one is awaiting.                      *)
(***************************************************************************)
OverlapTicks == 1..MaxOverlap
\* the one transaction the overlapping callbacks work on
OverlapTx == {1}

InitOverlap ==
    /\ records = [id \in TxIds |-> EmptyObj]
    /\ index = <<>>
    /\ now = 1
    /\ sub = [id \in TxIds |-> "none"]
    /\ subErr = [id \in TxIds |-> EmptyObj]
    /\ result = [id \in TxIds |-> EmptyObj]
    /\ sent = {}
    /\ stored = {}
    /\ tpc = [t \in OverlapTicks |-> "idle"]
    /\ ttx = [t \in OverlapTicks |-> NoTx]
    /\ block = <<>>
    /\ handled = {}
    /\ uncaught = FALSE

NextOverlap ==
    \/ \E id \in OverlapTx, name \in TxNames, args \in ArgLists, ts \in Times :
          SubmitStore(id, name, args, ts)
    \/ \E id \in OverlapTx, ts \in Times : SubmitStoreFail(id, ts)
    \/ \E id \in OverlapTx : SubmitIssue(id)
    \/ \E id \in OverlapTx : SubmitReturn(id)
    \/ \E id \in OverlapTx, err \in EndorseErrors : SubmitFail(id, err)
    \/ \E id \in OverlapTx : SubmitCatch(id)
    \/ \E t \in OverlapTicks : TickFire(t)
    \/ \E t \in OverlapTicks : TickReadFail(t)
    \/ \E t \in OverlapTicks : TickZrange(t)
    \/ \E t \in OverlapTicks : TickHgetall(t)
    \/ \E t \in OverlapTicks : TickResubmitOk(t)
    \/ \E t \in OverlapTicks, err \in GatewayErrors : TickResubmitFail(t, err)
    \/ \E t \in OverlapTicks : TickClear(t)
    \/ \E t \in OverlapTicks : TickIncr(t)

SpecOverlap == InitOverlap /\ [][NextOverlap]_vars

(***************************************************************************)
(* Properties.                                                             *)
(***************************************************************************)
Indexed(idx, id) == id \in DOMAIN idx
Gone(recs, idx, id) == ~Exists(recs, id) /\ ~Indexed(idx, id)

\* the store apart from id is the same in both
SameExcept(recs1, idx1, recs2, idx2, ids) ==
    \A m \in TxIds \ ids :
        /\ recs1[m] = recs2[m]
        /\ Indexed(idx1, m) <=> Indexed(idx2, m)
        /\ Indexed(idx1, m) => idx1[m] = idx2[m]

\* tick t takes a step / ends its callback in this step
TickMoves(t) == tpc'[t] # tpc[t]
\* blockListner finishes one turn of its loop in this step
ListenerMoves == block # <<>> /\ block' = Tail(block)
ValidEvent(ev) == ev # NullEvent /\ ev.isValid

\* C1: txn.submit is issued for an id only after storeTransactionDetails has
\* completed for it: every id handed to the network has had its record (state,
\* args, timestamp, retries and index entry) written, and a submit whose store
\* call rejected never reaches the network.
C1_StoreBeforeSubmit ==
    /\ \A id \in sent : id \in stored
    /\ \A id \in TxIds : sub[id] \in {"submit", "returned"} => id \in stored
    /\ \A id \in TxIds :
          sub[id] = "stored" =>
             \/ Gone(records, index, id)
             \/ /\ DOMAIN records[id] = {"state", "args", "timestamp", "retries"}
                /\ Indexed(index, id)
                /\ index[id] = records[id].timestamp

\* C1 witness: a submit has been issued to the network after its store
C1_Witness == \E id \in TxIds : sub[id] = "submit" /\ id \in stored

ThrownKind(id) == result[id].thrown.kind
RaisedClean(id) ==
    /\ Has(result[id], "thrown")
    /\ result[id].thrown.transactionId = id
    /\ Gone(records, index, id)

Removed(id) ==
    \/ Exists(records, id) /\ ~Exists(records', id)
    \/ Indexed(index, id) /\ ~Indexed(index', id)

\* the record of id is removed in this step by the retry loop or the listener
ClearedByLoopOrListener(id) ==
    \/ \E t \in Ticks :
          /\ tpc[t] \in {"abandon", "clearOk", "discard"}
          /\ ttx[t] = id
          /\ TickMoves(t)
    \/ /\ ListenerMoves
       /\ ValidEvent(Head(block))
       /\ Head(block).transactionId = id

\* C3: when txn.submit resolves, submitTransaction returns the transaction id
\* and leaves the store alone; a submit that has returned does nothing more,
\* and the record of such an id is only ever removed by the retry loop or by
\* the block listener.
C3_SuccessKeepsRecord ==
    [][\A id \in TxIds :
          /\ (sub[id] = "submit" /\ sub'[id] = "returned") =>
                /\ result'[id] = [returned |-> id]
                /\ records' = records
                /\ index' = index
          /\ sub[id] = "returned" => sub'[id] = "returned"
          /\ (sub[id] \in {"submit", "returned"} /\ Removed(id)) =>
                ClearedByLoopOrListener(id)]_vars

\* C3 witness: submit has returned and the record is still pending
C3_Witness ==
    \E id \in TxIds :
        /\ sub[id] = "returned"
        /\ Exists(records, id)
        /\ Indexed(index, id)

\* C4: a record starts with retries 0; a tick whose resubmission failed
\* retryably raises retries of the record by exactly 1 and leaves it pending
\* with every other field as it was; nothing else changes a pending record;
\* and a tick whose resubmission succeeded leaves no record and no index
\* entry.  So k failed ticks take retries through 0, 1, ..., k and the
\* successful tick clears the record.
C4_RetriesCount ==
    [][/\ \A id \in TxIds :
             /\ (~Exists(records, id) /\ Exists(records', id)) =>
                   records'[id].retries = 0
             /\ (Exists(records, id) /\ Exists(records', id)
                    /\ records'[id] # records[id]) =>
                   \E t \in Ticks : tpc[t] = "incr" /\ ttx[t] = id /\ TickMoves(t)
       /\ \A t \in Ticks :
             /\ (TickMoves(t) /\ tpc'[t] = "retried" /\ Exists(records, ttx[t])) =>
                   /\ records'[ttx[t]] =
                         [records[ttx[t]] EXCEPT !.retries = @ + 1]
                   /\ index' = index
             /\ (TickMoves(t) /\ tpc'[t] = "cleared") =>
                   Gone(records', index', ttx[t])
             /\ (TickMoves(t) /\ tpc[t] = "resubmit") =>
                   (records' = records /\ index' = index)]_vars

\* C4 witness: a record has failed MaxRetryCount - 1 times, its retries has
\* gone up to that, and the resubmission of the next tick has succeeded
C4_Witness ==
    \E t \in Ticks :
        /\ tpc[t] = "clearOk"
        /\ Exists(records, ttx[t])
        /\ records[ttx[t]].retries = MaxRetryCount - 1

\* the record the hgetall of tick t reads in this step is at the ceiling
LoadsExhausted(t) ==
    /\ tpc[t] = "hgetall"
    /\ tpc'[t] \notin {"hgetall", "caughtRedis"}
    /\ Exists(records, ttx[t])
    /\ records[ttx[t]].retries >= MaxRetryCount

\* C5: a tick that loads a record with retries >= config.maxRetryCount goes on
\* to clear it and issues no submit, the clear leaves no record and no index
\* entry of the id, and a tick only ever starts a resubmission after loading
\* a record with retries below the ceiling.
C5_CeilingAbandons ==
    [][\A t \in Ticks :
          /\ LoadsExhausted(t) => (tpc'[t] = "abandon" /\ sent' = sent)
          /\ (TickMoves(t) /\ tpc'[t] = "resubmit") =>
                /\ Exists(records, ttx[t])
                /\ records[ttx[t]].retries < MaxRetryCount
          /\ (TickMoves(t) /\ tpc[t] = "abandon") =>
                /\ tpc'[t] = "abandoned"
                /\ sent' = sent
                /\ Gone(records', index', ttx[t])]_vars

\* C5 witness: a tick has abandoned a record that reached the ceiling
C5_Witness == \E t \in Ticks : tpc[t] = "abandoned"

\* C6: when the resubmission of a tick fails with an error that is not
\* retryable, the tick ends with no record and no index entry left for the
\* id (and without having incremented its retries).
C6_FatalDiscards ==
    [][\A t \in Ticks :
          (tpc[t] \in {"resubmit", "discard"} /\ tpc'[t] \in TickDone) =>
             Gone(records', index', ttx[t])]_vars

\* C7: no failure inside a tick escapes the callback, and a callback that has
\* ended, whatever it ended with, can be fired again by the interval timer.
C7_LoopSurvives ==
    /\ ~uncaught
    /\ \A t \in Ticks : tpc[t] \in TickDone => ENABLED TickFire(t)

\* C7 witness: a tick has ended in the catch of the callback after its own
\* failure handling threw, and the timer can fire the callback again
C7_Witness ==
    \E t \in Ticks : tpc[t] = "caughtLogger" /\ ENABLED TickFire(t)

\* C8: the id a tick selects has the smallest timestamp of the index.
C8_OldestFirst ==
    [][\A t \in Ticks :
          (tpc[t] = "zrange" /\ tpc'[t] = "hgetall") =>
             /\ Indexed(index, ttx'[t])
             /\ \A m \in DOMAIN index : index[ttx'[t]] <= index[m]]_vars

\* C9: a turn of the listener's loop on a valid event removes the record and
\* the index entry of that event's id and nothing else; a turn on an event
\* that is not valid, or missing, changes nothing; and the ids of the valid
\* events the listener has been through have no record and no index entry,
\* in particular once the block is handled.
C9_ListenerFrame ==
    [][/\ ListenerMoves =>
            IF ValidEvent(Head(block))
            THEN /\ Gone(records', index', Head(block).transactionId)
                 /\ SameExcept(records, index, records', index',
                               {Head(block).transactionId})
            ELSE records' = records /\ index' = index
       /\ \A id \in handled' : Gone(records', index', id)]_vars

\* C9 witness: a block with a valid event has been handled, and the record of
\* another id is still there
C9_Witness ==
    /\ ListenerIdle
    /\ handled # {}
    /\ \E id \in TxIds \ handled : Exists(records, id)

TickInFlightFor(t) ==
    tpc[t] \in {"hgetall", "resubmit", "clearOk", "incr", "discard", "abandon"}

\* C10: a turn of the listener on a valid event clears that id also while a
\* tick is in flight for another id; a step of a tick changes the record and
\* index entry of no id but its own, so it does not bring back what the
\* listener cleared.
C10_ListenerVsTick ==
    [][/\ (ListenerMoves /\ ValidEvent(Head(block))) =>
            Gone(records', index', Head(block).transactionId)
       /\ \A t \in Ticks :
             TickMoves(t) =>
                /\ SameExcept(records, index, records', index', {ttx[t]})
                /\ \A id \in handled \ {ttx[t]} : Gone(records', index', id)]_vars

\* C10 witness: the listener has cleared one id while a tick is in flight for
\* another id whose record is pending
C10_Witness ==
    /\ handled # {}
    /\ \E t \in Ticks :
          /\ TickInFlightFor(t)
          /\ tpc[t] # "hgetall"
          /\ ttx[t] \notin handled
          /\ Exists(records, ttx[t])

IncrStep(t) == tpc[t] = "incr" /\ TickMoves(t)

ClearedNow ==
    {id \in TxIds :
        \/ \E t \in Ticks :
              /\ tpc[t] \in {"abandon", "clearOk", "discard"}
              /\ ttx[t] = id
              /\ TickMoves(t)
        \/ /\ ListenerMoves
           /\ ValidEvent(Head(block))
           /\ Head(block).transactionId = id
        \/ sub[id] = "catch" /\ sub'[id] # "catch"}

\* C13: a clearTransactionDetails call, whoever makes it, leaves no record and
\* no index entry of its id and touches no other id; on an id that has no
\* record (cleared before, or never stored) it changes nothing and does not
\* fail: the tick that called it ends as after any clear and the submit that
\* called it goes on to throw its typed error.  Clearing twice gives the
\* store that clearing once gives.
C13_ClearIdempotent ==
    [][/\ \A id \in ClearedNow :
             /\ Gone(records', index', id)
             /\ SameExcept(records, index, records', index', {id})
             /\ Gone(records, index, id) =>
                   (records' = records /\ index' = index)
       /\ \A id \in TxIds :
             (sub[id] = "catch" /\ sub'[id] # "catch") => sub'[id] = "raised"
       /\ \A t \in Ticks :
             (tpc[t] \in {"abandon", "clearOk", "discard"} /\ TickMoves(t)) =>
                /\ tpc'[t] = AfterClear(tpc[t])
                /\ ~uncaught'
       /\ \A id \in TxIds :
             LET once == clearTransactionDetails(Store, id)
             IN  /\ clearTransactionDetails(once, id) = once
                 /\ Gone(once.records, once.index, id)]_vars

\* C13 witness: a tick is about to clear an id that the block listener has
\* cleared while the tick was in flight
C13_Witness ==
    \E t \in Ticks :
        /\ tpc[t] \in {"abandon", "clearOk", "discard"}
        /\ ttx[t] \in handled
        /\ Gone(records, index, ttx[t])
        /\ ENABLED TickClear(t)

\* the record store(id, state, args, timestamp) writes
Written(state, args, timestamp) ==
    [state |-> state, args |-> args, timestamp |-> timestamp, retries |-> 0]

TypedErrors ==
    {"AssetExistsError", "AssetNotFoundError", "TransactionNotFoundError",
     "TransactionError"}

\* the evatuateTransaction call that created id takes a step
EvaluateMoves(id) ==
    \/ sub[id] = "none" /\ sub'[id] = "evaluate"
    \/ sub[id] = "evaluate" /\ sub'[id] # "evaluate"

\* C15: no step of evatuateTransaction, the call, its return or its failure,
\* changes a record, a retry count or the index; the id it created never has a
\* record or an index entry and is never resubmitted; when txn.evaluate fails
\* the call throws one of the typed errors submitTransaction throws, carrying
\* the id of the transaction it created.
C15_EvaluateNoBookkeeping ==
    [][\A id \in TxIds :
          /\ EvaluateMoves(id) =>
                /\ records' = records
                /\ index' = index
                /\ sent' = sent
                /\ stored' = stored
          /\ sub[id] \in {"evaluate", "evalReturned", "evalRaised"} =>
                /\ Gone(records, index, id)
                /\ id \notin stored
                /\ id \notin sent
          /\ (sub[id] = "evaluate" /\ sub'[id] # "evaluate") =>
                \/ /\ sub'[id] = "evalReturned"
                   /\ result'[id] = [returned |-> EvalPayload]
                \/ /\ sub'[id] = "evalRaised"
                   /\ DOMAIN result'[id] = {"thrown"}
                   /\ result'[id].thrown.kind \in TypedErrors
                   /\ result'[id].thrown.transactionId = id]_vars

\* C15 witness: evatuateTransaction has thrown AssetNotFoundError while the
\* record of a submitted transaction is pending with retries raised
C15_Witness ==
    \E id \in TxIds, other \in TxIds :
        /\ sub[id] = "evalRaised"
        /\ result[id].thrown.kind = "AssetNotFoundError"
        /\ Exists(records, other)
        /\ records[other].retries > 0

\* C16: when the resubmission of a tick fails with the duplicate-transaction
\* error (the transaction is committed already), the tick goes on to clear the
\* record without incrementing its retries, and that clear leaves no record
\* and no index entry of the id, so no later tick resubmits it.
C16_DuplicateClears ==
    [][\A t \in Ticks :
          /\ TickResubmitFail(t, EDuplicate) =>
                /\ tpc'[t] = "discard"
                /\ records' = records
          /\ (tpc[t] = "discard" /\ TickMoves(t)) =>
                Gone(records', index', ttx[t])]_vars

\* a step of a submitTransaction or evatuateTransaction call, or a turn of
\* the block listener
CallOrListenerMoves == sub' # sub \/ block' # block

\* C17: while the record of an id exists, its retries never goes down, and
\* it changes only in the step in which a tick of the retry loop completes
\* incrementRetryCount for that id; a step of submitTransaction, of
\* evatuateTransaction or of the block listener leaves every record either
\* as it was, or newly created, or deleted.
C17_RetriesMonotone ==
    [][/\ \A id \in TxIds :
             (Exists(records, id) /\ Exists(records', id)) =>
                /\ records'[id].retries >= records[id].retries
                /\ records'[id].retries # records[id].retries =>
                      \E t \in Ticks : IncrStep(t) /\ ttx[t] = id
       /\ CallOrListenerMoves =>
             \A id \in TxIds :
                \/ records'[id] = records[id]
                \/ ~Exists(records, id) /\ records'[id].retries = 0
                \/ ~Exists(records', id)]_vars

\* C17 witness: the retry loop has raised retries of a record to the ceiling,
\* its submit having returned, and an evaluate call has completed meanwhile
C17_Witness ==
    \E id \in TxIds, other \in TxIds :
        /\ sub[id] = "returned"
        /\ Exists(records, id)
        /\ records[id].retries = MaxRetryCount
        /\ sub[other] \in {"evalReturned", "evalRaised"}

\* the patterns of the classifier, each on its own
SaysExists(msg) ==
    \E i \in 1..Len(msg) :
        /\ i + 3 <= Len(msg)
        /\ msg[i] \in {"asset", "Asset"}
        /\ IsWord(msg[i + 1])
        /\ msg[i + 2] = "already"
        /\ msg[i + 3] = "exists"
SaysNotExist(msg) ==
    \E i \in 1..Len(msg) :
        /\ i + 4 <= Len(msg)
        /\ msg[i] \in {"asset", "Asset"}
        /\ IsWord(msg[i + 1])
        /\ msg[i + 2] = "does"
        /\ msg[i + 3] = "not"
        /\ msg[i + 4] = "exist"
SaysTxNotFound(msg) == TxMatches(msg) # {}

PriorityKind(msg) ==
    IF SaysExists(msg) THEN "AssetExistsError"
    ELSE IF SaysNotExist(msg) THEN "AssetNotFoundError"
    ELSE IF SaysTxNotFound(msg) THEN "TransactionNotFoundError"
    ELSE "TransactionError"

\* C18: what a call throws after its gateway call failed is the value of the
\* classifier: one of the four typed errors, carrying the id of the call,
\* whose kind is that of the first pattern, in the order already-exists,
\* does-not-exist, transaction-not-found, that the message matches anywhere,
\* and the generic TransactionError when it matches none.  The examples of
\* the spec classify with the matched text as their message.
C18_FirstPatternWins ==
    /\ \A id \in TxIds :
          sub[id] = "evalRaised" =>
             /\ DOMAIN result[id] = {"thrown"}
             /\ result[id].thrown.kind \in TypedErrors
             /\ result[id].thrown.kind = PriorityKind(subErr[id].message)
             /\ result[id].thrown.transactionId = id
             /\ result[id].thrown.kind = "TransactionError" =>
                   result[id].thrown.message = <<"Transaction", "error">>
    /\ \A id \in TxIds :
          /\ handleError(id, [message |-> MsgSpecExists]) =
                [kind |-> "AssetExistsError", message |-> MsgSpecExists,
                 transactionId |-> id]
          /\ handleError(id, [message |-> MsgSpecNotExist]) =
                [kind |-> "AssetNotFoundError", message |-> MsgSpecNotExist,
                 transactionId |-> id]
          /\ handleError(id, [message |-> MsgExists]).message =
                <<"the", "asset", "a1", "already", "exists">>
          /\ handleError(id, [message |-> MsgTxAndExists]).message =
                <<"The", "asset", "a1", "already", "exists">>

\* C18 witness: a call has thrown AssetExistsError for a message in which
\* "does not exist" comes first and "already exists" after it
C18_Witness ==
    \E id \in TxIds :
        /\ sub[id] = "evalRaised"
        /\ subErr[id].message = MsgBothReversed
        /\ result[id].thrown.kind = "AssetExistsError"
        /\ result[id].thrown.message = <<"the", "asset", "a1", "already", "exists">>

\* C19: with ticks that keep firing and no submissions after some point,
\* every record in the store is eventually removed.
C19_EveryRecordRemoved ==
    \A id \in TxIds : Exists(records, id) ~> ~Exists(records, id)

\* the callbacks that have resubmitted id and not yet finished their
\* failure handling
Resubmitting(id) ==
    {t \in DOMAIN tpc : tpc[t] \in {"resubmit", "incr"} /\ ttx[t] = id}

\* C20: retries of a record never exceeds config.maxRetryCount, and the
\* resubmissions of an id, those counted in retries together with those of
\* the callbacks still in flight for it, never number more than
\* config.maxRetryCount, also when callbacks overlap.
C20_CeilingHolds ==
    \A id \in TxIds :
        Exists(records, id) =>
           /\ records[id].retries <= MaxRetryCount
           /\ records[id].retries + Cardinality(Resubmitting(id)) <= MaxRetryCount

====
